---- MODULE Spec2Model ----
(***************************************************************************)
(* The per-connection transcription session of the three server entry      *)
(* points of the repository:                                               *)
(*   "server" : src/server.ts        (activeStreams, start/endTranscription)*)
(*   "index"  : src/server/index.ts  (activeConnections, validation, sweep) *)
(*   "js"     : src/server/index.js  (closure stream only, no registry)     *)
(* One process runs one of them; `variant` says which.  Handlers run to     *)
(* completion on the event loop, so every handler is one atomic action.     *)
(***************************************************************************)
EXTENDS Integers, Sequences, FiniteSets, TLC

\* ---- bounds of the model ------------------------------------------------
MaxConns == 2      \* socket ids
MaxStreams == 3    \* recognizer streams opened in one run
MaxEvents == 3     \* client and recognizer events handled in one run, other than
                   \* connection, startTranscription and disconnect
MaxTicks == 6      \* firings of the cleanup interval
MaxSockets == 7    \* WebSockets one WebSocketManager constructs
MaxRegs == 2       \* registrations of callbacks with one WebSocketManager
MaxMsgs == 2       \* messages and error events one WebSocketManager receives
MaxChunks == 102   \* chunks with data passed to one manager's sendAudio
MaxDirect == 2     \* of these, chunks passed while the manager is connected
MaxProcessors == 3 \* AudioProcessor objects one LiveTracker makes
MaxAcqs == 3       \* getUserMedia calls made for one LiveTracker
MaxIoEvents == 2   \* events one socket.io socket delivers, and disconnect() calls

\* ---- program constants --------------------------------------------------
minSize == 1024
maxSize == 1048576
WavHeaderLen == 44
PcmFormat == 1
MonoChannels == 1
SampleRate16k == 16000
CleanupIntervalMs == 60000
InactivityMs == 300000
maxAudioChunkSize == 1048576
maxReconnectAttempts == 5
reconnectDelay == 1000
AudioBufferCap == 100

Conns == 1..MaxConns
None == 0
Variants == {"server", "index", "js"}

VARIABLES
  variant,          \* which entry point this process runs
  crashed,          \* the process died of an unhandled 'error' event
  status,           \* socket id -> "new" | "connected" | "disconnected"
  streams,          \* every recognizer stream opened so far, by stream id
  activeStreams,    \* registry: socket id -> stream id, None when absent
  lastActivity,     \* registry (index.ts): socket id -> ms of last activity
  recognizeStream,  \* the connection closure's recognizeStream variable
  emitted,          \* socket id -> sequence of socket.emit calls
  now,              \* Date.now(), in ms since process start
  nEvents,          \* history: events counted against MaxEvents
  closeHits,        \* history: closing events handled per socket id
  unrouted,         \* history: chunks per socket id whose lookup found no entry
  lastChunkAt,      \* history (index.ts): socket id -> ms at which the last chunk
                    \* arrived for its entry (ms of registration while none has)
  phase,            \* startup: "loaded" | "configured" | "listening" | "exited"
  env,              \* startup: the process environment, in the entries read
  vInput,           \* validateAudioInput: the argument of the call
  vResult,          \* validateAudioInput: "pending" | "true" | "false" | "threw"
  sock,             \* WebSocketManager: readyState of the WebSocket made last:
                    \* "none" | "connecting" | "open" | "closing" | "closed"
  held,             \* WebSocketManager: this.socket is not null
  reconnectAttempts, \* WebSocketManager: this.reconnectAttempts
  timer,            \* WebSocketManager: delay of the pending setTimeout, 0 if none
  listeners,        \* WebSocketManager: event name -> the EventEmitter's listeners
  nSockets,         \* history: WebSockets constructed so far
  tries,            \* history: connect() calls made by the timer since the last open
  gaveUp,           \* history: 'Maximum reconnection attempts reached' was emitted
  stopped,          \* history: disconnect() has been called
  regs,             \* history: the registrations made, with their unsubscribe state
  calls,            \* history: the callback invocations of the latest emit, in order
  msgs,             \* history: how many messages and error events the socket
                    \* delivered, and the kind of the latest
  ioSocket,         \* socket.io manager: this.socket, "pending" until the
                    \* constructor's fetch settles, "absent" when io() threw,
                    \* else "idle" | "connecting" | "connected"
  isConnected,      \* socket.io manager: this.isConnected
  audioBuffer,      \* socket.io manager: this.audioBuffer
  ioAttempts,       \* socket.io manager: this.reconnectAttempts
  ioLast,           \* history: the latest call or handler of the socket.io
                    \* manager, its argument and the 'audio' events it emitted
  lastSent,         \* history: the chunk of the latest 'audio' event, 0 if none
  nChunks,          \* history: chunks with data passed to sendAudio
  nDirect,          \* history: of these, chunks passed while connected
  nIoEvents,        \* history: events the socket.io socket delivered, and
                    \* disconnect() calls
  procs,            \* the AudioProcessor objects made so far, in order: each
                    \* one's stream, recorder and isRecording fields
  acqs,             \* the getUserMedia calls made so far, in order: the
                    \* processor that called, the state of the stream's tracks
                    \* and the state of the MediaRecorder made for the stream
  uiIsRecording,    \* LiveTracker: the isRecording state of the last render
  wsIsRecording     \* WebSocketManager.isRecording (src/lib/websocket-manager.ts)

vars == <<variant, crashed, status, streams, activeStreams, lastActivity,
          recognizeStream, emitted, now, nEvents, closeHits, unrouted,
          lastChunkAt, phase, env, vInput, vResult, sock, held,
          reconnectAttempts, timer, listeners, nSockets, tries, gaveUp,
          stopped, regs, calls, msgs, ioSocket, isConnected, audioBuffer,
          ioAttempts, ioLast, lastSent, nChunks, nDirect, nIoEvents, procs,
          acqs, uiIsRecording, wsIsRecording>>

\* The browser's WebSocketManager (src/lib/websocket-manager.ts).
wsVars == <<sock, held, reconnectAttempts, timer, listeners, nSockets, tries,
            gaveUp, stopped, regs, calls, msgs>>
\* The socket.io WebSocketManager (src/app/api/quran/route.ts).
ioVars == <<ioSocket, isConnected, audioBuffer, ioAttempts, ioLast, lastSent,
            nChunks, nDirect, nIoEvents>>
\* The LiveTracker component and its AudioProcessor objects
\* (src/unnamed/part_000, src/lib/audio-processor.ts).
apVars == <<procs, acqs, uiIsRecording, wsIsRecording>>
\* The objects that live in the browser.
clients == <<wsVars, ioVars, apVars>>
\* What lives outside the server process and its startup.
offline == <<vInput, vResult, clients>>
\* What the handlers of a listening server never touch.
elsewhere == <<phase, env, offline>>

\* ---- audio chunks -------------------------------------------------------
\* A chunk is a Buffer seen through what the validation reads: its length
\* and the header fields at offsets 0, 8, 20, 22 and 24.
Chunk(len, riff, wave, fmt, ch, rate) ==
  [isBuffer |-> TRUE, length |-> len, riff |-> riff, wave |-> wave,
   audioFormat |-> fmt, numChannels |-> ch, sampleRate |-> rate]

\* The k-th event of a run, when it is an 'audio' event, carries an empty
\* buffer or a WAV-framed chunk whose length tells it from the others.
EmptyChunk == Chunk(0, "", "", 0, 0, 0)
Wav(k) == Chunk(minSize + k, "RIFF", "WAVE", PcmFormat, MonoChannels, SampleRate16k)
\* A WAV-framed chunk one byte over the validation's maxSize.
Oversized == Chunk(maxSize + 1, "RIFF", "WAVE", PcmFormat, MonoChannels, SampleRate16k)
\* maxHttpBufferSize of the socket.io Server: config.maxAudioChunkSize in
\* server.ts, 1e8 in index.ts, the library's default in index.js.
maxHttpBufferSize(v) ==
  CASE v = "server" -> maxAudioChunkSize
    [] v = "index" -> 100000000
    [] OTHER -> 1000000
\* The transport hands a message to the 'audio' handler only when it fits
\* maxHttpBufferSize.
AudioInputs(k) ==
  {ch \in {EmptyChunk, Wav(k), Oversized} : ch.length <= maxHttpBufferSize(variant)}

checkWavHeader(buffer) ==
  IF buffer.length < WavHeaderLen THEN FALSE
  ELSE IF buffer.riff # "RIFF" THEN FALSE
  ELSE IF buffer.wave # "WAVE" THEN FALSE
  ELSE IF buffer.audioFormat # PcmFormat THEN FALSE
  ELSE IF buffer.numChannels # MonoChannels THEN FALSE
  ELSE IF buffer.sampleRate # SampleRate16k THEN FALSE
  ELSE TRUE

\* validateAudioInput with a fault: a chunk of exactly minSize is refused.
validateAudioInput_MinExcluded(audioChunk) ==
  IF ~audioChunk.isBuffer THEN FALSE
  ELSE IF audioChunk.length <= minSize \/ audioChunk.length > maxSize THEN FALSE
  ELSE IF ~checkWavHeader(audioChunk) THEN FALSE
  ELSE TRUE

validateAudioInput(audioChunk) ==
  IF ~audioChunk.isBuffer THEN FALSE
  ELSE IF audioChunk.length < minSize \/ audioChunk.length > maxSize THEN FALSE
  ELSE IF ~checkWavHeader(audioChunk) THEN FALSE
  ELSE TRUE

\* ---- recognizer messages ------------------------------------------------
Alt(t, c) == [transcript |-> t, confidence |-> c]
Result(alts, final) == [alternatives |-> alts, isFinal |-> final]
\* The k-th event of a run, when it is a recognizer message: no result, a result without alternatives, or
\* an interim or final result whose confidence k tells it from the others.
NoResultMsg == [results |-> <<>>]
NoAltMsg == [results |-> <<Result(<<>>, FALSE)>>]
InterimMsg(k) == [results |-> <<Result(<<Alt("bis", k)>>, FALSE)>>]
FinalMsg(k) == [results |-> <<Result(<<Alt("bismi", k), Alt("bism", 0)>>, TRUE)>>]
Messages(k) == {NoResultMsg, NoAltMsg, InterimMsg(k), FinalMsg(k)}

\* data.results[0] && data.results[0].alternatives[0]
HasTopAlternative(data) ==
  /\ Len(data.results) > 0
  /\ Len(data.results[1].alternatives) > 0

\* ---- socket.emit payloads -----------------------------------------------
ErrorEvent(msg) == [event |-> "error", message |-> msg]

\* server.ts: { text, isFinal, confidence }
TranscriptionObject(data, sid) ==
  [event |-> "transcription", stream |-> sid,
   text |-> data.results[1].alternatives[1].transcript,
   isFinal |-> data.results[1].isFinal,
   confidence |-> data.results[1].alternatives[1].confidence]

\* index.ts, index.js: the transcript string alone
TranscriptionText(data, sid) ==
  [event |-> "transcription", stream |-> sid,
   text |-> data.results[1].alternatives[1].transcript]

Emit(c, ev) == [emitted EXCEPT ![c] = Append(@, ev)]

\* ---- recognition request ------------------------------------------------
\* The languageCode entry of the handshake query: absent, or a language the
\* client asks for.
NoLanguage == ""
HandshakeQueries == {NoLanguage, "en-US"}

\* config.languageCode of server.ts with DEFAULT_LANGUAGE_CODE unset, and
\* the literal of index.ts and index.js.
DefaultLanguageCode == "ar-SA"

\* server.ts: socket.handshake.query.languageCode || config.languageCode
requestLanguageCode(query) == IF query # NoLanguage THEN query ELSE DefaultLanguageCode

\* The request object, in the fields the entry points agree on.
Request(languageCode) ==
  [encoding |-> "LINEAR16", sampleRateHertz |-> SampleRate16k,
   languageCode |-> languageCode, interimResults |-> TRUE]

\* ---- recognizer streams -------------------------------------------------
\* client.streamingRecognize(request), with the listeners attached to it.
\* fed, written and produced are the stream's history: the chunks that
\* arrived while it was the connection's stream, the chunks passed to
\* write(), the sockets whose handler called write(), and the messages the
\* recognizer sent on it.
streamingRecognize(c, request, cause, errListener, dataListener) ==
  [owner |-> c, request |-> request, openedBy |-> cause,
   onError |-> errListener, onData |-> dataListener,
   endCalls |-> 0, errored |-> FALSE,
   fed |-> <<>>, written |-> <<>>, senders |-> {}, produced |-> <<>>]

StreamIds == 1..Len(streams)
\* The request constant of socket c's connection closure: the one its
\* connection-time stream was opened with.
requestOf(c) == streams[recognizeStream[c]].request
NextId == Len(streams) + 1

End(strs, s) == [strs EXCEPT ![s].endCalls = @ + 1]
Write(strs, s, c, chunk) ==
  [strs EXCEPT ![s].fed = Append(@, chunk), ![s].written = Append(@, chunk),
               ![s].senders = @ \cup {c}]
Drop(strs, s, chunk) == [strs EXCEPT ![s].fed = Append(@, chunk)]

\* ---- startup ------------------------------------------------------------
\* process.env in the entries the entry points read before they listen.
Unset == "unset"
Envs == [PORT : {Unset, "3000", "abc"},
         GOOGLE_CLOUD_CREDENTIALS : {Unset, "json", "garbage"},
         GOOGLE_CLOUD_KEY_FILE : {Unset, "key.json"}]
\* The environment of a deployment that has its credentials.
DeployedEnv == [PORT |-> "3000", GOOGLE_CLOUD_CREDENTIALS |-> "json",
                GOOGLE_CLOUD_KEY_FILE |-> Unset]

\* parseInt(process.env.PORT || '3000', 10) is a number: z.number() rejects NaN
PortParses(e) == e.PORT # "abc"
\* JSON.parse of the credentials text returns
CredentialsParse(e) == e.GOOGLE_CLOUD_CREDENTIALS # "garbage"

\* The events of the manager's EventEmitter that carry server messages.
WsEvents == {"transcription", "error"}

\* Nothing has been delivered by a WebSocket.
NoMsgs == [n |-> 0, kind |-> "none"]

\* No WebSocketManager has been constructed.
WsIdle ==
  /\ sock = "none"
  /\ held = FALSE
  /\ reconnectAttempts = 0
  /\ timer = 0
  /\ listeners = [ev \in WsEvents |-> <<>>]
  /\ nSockets = 0
  /\ tries = 0
  /\ gaveUp = FALSE
  /\ stopped = FALSE
  /\ regs = <<>>
  /\ calls = <<>>
  /\ msgs = NoMsgs

\* Nothing has been called on the socket.io manager.
NoCall == [op |-> "none", chunk |-> 0, emits |-> <<>>]

\* No socket.io WebSocketManager has been constructed.
IoIdle ==
  /\ ioSocket = "pending"
  /\ isConnected = FALSE
  /\ audioBuffer = <<>>
  /\ ioAttempts = 0
  /\ ioLast = NoCall
  /\ lastSent = 0
  /\ nChunks = 0
  /\ nDirect = 0
  /\ nIoEvents = 0

\* No LiveTracker is mounted.
ApIdle ==
  /\ procs = <<>>
  /\ acqs = <<>>
  /\ uiIsRecording = FALSE
  /\ wsIsRecording = FALSE

\* No object has been constructed in the browser.
ClientsIdle == WsIdle /\ IoIdle /\ ApIdle

\* No call of validateAudioInput is being followed, no manager exists.
OfflineIdle ==
  /\ vInput = EmptyChunk
  /\ vResult = "pending"
  /\ ClientsIdle

\* The server's data as its constructors leave them: no socket, no stream,
\* an empty map.
Fresh ==
  /\ crashed = FALSE
  /\ status = [c \in Conns |-> "new"]
  /\ streams = <<>>
  /\ activeStreams = [c \in Conns |-> None]
  /\ lastActivity = [c \in Conns |-> 0]
  /\ recognizeStream = [c \in Conns |-> None]
  /\ emitted = [c \in Conns |-> <<>>]
  /\ now = 0
  /\ nEvents = 0
  /\ closeHits = [c \in Conns |-> 0]
  /\ unrouted = [c \in Conns |-> 0]
  /\ lastChunkAt = [c \in Conns |-> 0]

Init ==
  /\ variant \in Variants
  /\ Fresh
  /\ phase = "listening"
  /\ env = DeployedEnv
  /\ OfflineIdle

Running(v) == variant = v /\ ~crashed
\* Recognizer events are followed while the owning socket is connected: a
\* socket.emit on a socket that has disconnected delivers nothing.
Connected(c) == status[c] = "connected"
\* Socket ids are handed out at connection time: the next connection gets
\* the least id not used yet.
IsNextSocket(c) == status[c] = "new" /\ \A d \in Conns : d < c => status[d] # "new"
\* One more event within the budget of the run.
Counted == nEvents < MaxEvents /\ nEvents' = nEvents + 1

\* ======================= src/server.ts ===================================

\* Srv_connection with a fault: the stream is opened but not stored, the
\* map is left to startTranscription.
Srv_connection_NotStored(c, query) ==
  /\ Running("server")
  /\ IsNextSocket(c)
  /\ Len(streams) < MaxStreams
  /\ streams' = Append(streams, streamingRecognize(c, Request(requestLanguageCode(query)),
                                                   "connection", TRUE, TRUE))
  /\ recognizeStream' = [recognizeStream EXCEPT ![c] = NextId]
  /\ status' = [status EXCEPT ![c] = "connected"]
  /\ UNCHANGED <<elsewhere, variant, lastChunkAt, unrouted, crashed, lastActivity,
                 emitted, now, nEvents, closeHits, activeStreams>>

\* io.on('connection'): the first stream gets both listeners and is stored.
Srv_connection(c, query) ==
  /\ Running("server")
  /\ IsNextSocket(c)
  /\ Len(streams) < MaxStreams
  /\ streams' = Append(streams, streamingRecognize(c, Request(requestLanguageCode(query)),
                                                   "connection", TRUE, TRUE))
  /\ recognizeStream' = [recognizeStream EXCEPT ![c] = NextId]
  /\ activeStreams' = [activeStreams EXCEPT ![c] = NextId]
  /\ status' = [status EXCEPT ![c] = "connected"]
  /\ UNCHANGED <<elsewhere, variant, lastChunkAt, unrouted, crashed, lastActivity,
                 emitted, now, nEvents, closeHits>>

\* socket.on('startTranscription'): a bare stream, no listener attached,
\* replaces the map entry; the stream it replaces is not touched.
Srv_startTranscription(c) ==
  /\ Running("server")
  /\ Connected(c)
  /\ Len(streams) < MaxStreams
  /\ streams' = Append(streams, streamingRecognize(c, requestOf(c),
                                                   "startTranscription", FALSE, FALSE))
  /\ recognizeStream' = [recognizeStream EXCEPT ![c] = NextId]
  /\ activeStreams' = [activeStreams EXCEPT ![c] = NextId]
  /\ UNCHANGED <<elsewhere, variant, lastChunkAt, unrouted, crashed, status,
                 lastActivity, emitted, now, nEvents, closeHits>>

\* Srv_audio with a fault: a chunk that finds no stored stream opens one.
Srv_audio_OpensOnMiss(c, audioChunk) ==
  /\ Running("server")
  /\ Connected(c)
  /\ Counted
  /\ LET stream == activeStreams[c] IN
       IF stream # None
       THEN /\ streams' = Write(streams, stream, c, audioChunk)
            /\ UNCHANGED <<unrouted, activeStreams, recognizeStream>>
       ELSE /\ Len(streams) < MaxStreams
            /\ streams' = Append(streams, [streamingRecognize(c, requestOf(c), "connection", TRUE, TRUE)
                                             EXCEPT !.fed = <<audioChunk>>,
                                                    !.written = <<audioChunk>>,
                                                    !.senders = {c}])
            /\ activeStreams' = [activeStreams EXCEPT ![c] = NextId]
            /\ recognizeStream' = [recognizeStream EXCEPT ![c] = NextId]
            /\ unrouted' = [unrouted EXCEPT ![c] = @ + 1]
  /\ UNCHANGED <<elsewhere, variant, lastChunkAt, crashed, status, lastActivity, emitted,
                 now, closeHits>>

\* Srv_audio with a fault: the chunk goes to the closure's recognizeStream
\* variable, whatever the map holds.
Srv_audio_ClosureStream(c, audioChunk) ==
  /\ Running("server")
  /\ Connected(c)
  /\ Counted
  /\ streams' = Write(streams, recognizeStream[c], c, audioChunk)
  /\ UNCHANGED <<elsewhere, variant, lastChunkAt, unrouted, crashed, status,
                 activeStreams, lastActivity,
                 recognizeStream, emitted, now, closeHits>>

\* socket.on('audio'): no validation; the chunk goes to the stored stream.
\* The catch branch needs audioChunk.length or write() to throw, which a
\* Buffer payload does not cause.
Srv_audio(c, audioChunk) ==
  /\ Running("server")
  /\ Connected(c)
  /\ Counted
  /\ LET stream == activeStreams[c] IN
       IF stream # None
       THEN /\ streams' = Write(streams, stream, c, audioChunk)
            /\ emitted' = emitted
            /\ unrouted' = unrouted
       ELSE /\ emitted' = Emit(c, ErrorEvent("No active transcription stream"))
            /\ streams' = streams
            /\ unrouted' = [unrouted EXCEPT ![c] = @ + 1]
  /\ UNCHANGED <<elsewhere, variant, lastChunkAt, crashed, status, activeStreams,
                 lastActivity,
                 recognizeStream, now, closeHits>>

\* Srv_endTranscription with a fault: the stream is ended, its map entry kept.
Srv_endTranscription_KeepsEntry(c) ==
  /\ Running("server")
  /\ Connected(c)
  /\ Counted
  /\ closeHits' = [closeHits EXCEPT ![c] = @ + 1]
  /\ LET stream == activeStreams[c] IN
       IF stream # None
       THEN streams' = End(streams, stream)
       ELSE streams' = streams
  /\ UNCHANGED <<elsewhere, variant, lastChunkAt, unrouted, crashed, status,
                 activeStreams, lastActivity,
                 recognizeStream, emitted, now>>

Srv_endTranscription(c) ==
  /\ Running("server")
  /\ Connected(c)
  /\ Counted
  /\ closeHits' = [closeHits EXCEPT ![c] = @ + 1]
  /\ LET stream == activeStreams[c] IN
       IF stream # None
       THEN /\ streams' = End(streams, stream)
            /\ activeStreams' = [activeStreams EXCEPT ![c] = None]
       ELSE UNCHANGED <<streams, activeStreams>>
  /\ UNCHANGED <<elsewhere, variant, lastChunkAt, unrouted, crashed, status,
                 lastActivity, recognizeStream,
                 emitted, now>>

\* Srv_disconnect with a fault: the stream is ended, its map entry kept.
Srv_disconnect_KeepsEntry(c) ==
  /\ Running("server")
  /\ Connected(c)
  /\ status' = [status EXCEPT ![c] = "disconnected"]
  /\ closeHits' = [closeHits EXCEPT ![c] = @ + 1]
  /\ LET stream == activeStreams[c] IN
       IF stream # None
       THEN streams' = End(streams, stream)
       ELSE streams' = streams
  /\ UNCHANGED <<elsewhere, variant, lastChunkAt, unrouted, crashed, activeStreams,
                 lastActivity, recognizeStream,
                 emitted, now, nEvents>>

Srv_disconnect(c) ==
  /\ Running("server")
  /\ Connected(c)
  /\ status' = [status EXCEPT ![c] = "disconnected"]
  /\ closeHits' = [closeHits EXCEPT ![c] = @ + 1]
  /\ LET stream == activeStreams[c] IN
       IF stream # None
       THEN /\ streams' = End(streams, stream)
            /\ activeStreams' = [activeStreams EXCEPT ![c] = None]
       ELSE UNCHANGED <<streams, activeStreams>>
  /\ UNCHANGED <<elsewhere, variant, lastChunkAt, unrouted, crashed, lastActivity,
                 recognizeStream,
                 emitted, now, nEvents>>

\* Srv_onError with a fault: the error listener reopens a stream by itself.
Srv_onError_Retries(s) ==
  /\ Running("server")
  /\ s \in StreamIds
  /\ ~streams[s].errored
  /\ Connected(streams[s].owner)
  /\ Counted
  /\ Len(streams) < MaxStreams
  /\ streams' = Append([streams EXCEPT ![s].errored = TRUE],
                       streamingRecognize(streams[s].owner, streams[s].request,
                                          "startTranscription", TRUE, TRUE))
  /\ activeStreams' = [activeStreams EXCEPT ![streams[s].owner] = NextId]
  /\ recognizeStream' = [recognizeStream EXCEPT ![streams[s].owner] = NextId]
  /\ emitted' = Emit(streams[s].owner, ErrorEvent("Transcription error occurred"))
  /\ UNCHANGED <<elsewhere, variant, lastChunkAt, unrouted, crashed, status,
                 lastActivity, now, closeHits>>

\* recognizer 'error' on stream s.  With the listener of the connection
\* handler: one socket.emit('error'), nothing else.  On a stream made by
\* startTranscription there is no listener: the EventEmitter throws and the
\* process dies of the uncaught exception.
Srv_onError(s) ==
  /\ Running("server")
  /\ s \in StreamIds
  /\ ~streams[s].errored
  /\ Connected(streams[s].owner)
  /\ Counted
  /\ streams' = [streams EXCEPT ![s].errored = TRUE]
  /\ IF streams[s].onError
     THEN /\ emitted' = Emit(streams[s].owner, ErrorEvent("Transcription error occurred"))
          /\ crashed' = crashed
     ELSE /\ crashed' = TRUE
          /\ emitted' = emitted
  /\ UNCHANGED <<elsewhere, variant, lastChunkAt, unrouted, status, activeStreams,
                 lastActivity, recognizeStream,
                 now, closeHits>>

\* Srv_onData with a fault: the event overtakes the ones emitted before it.
Srv_onData_Overtakes(s, data) ==
  /\ Running("server")
  /\ s \in StreamIds
  /\ ~streams[s].errored
  /\ Connected(streams[s].owner)
  /\ Counted
  /\ streams' = [streams EXCEPT ![s].produced = Append(@, data)]
  /\ IF streams[s].onData /\ HasTopAlternative(data)
     THEN emitted' = [emitted EXCEPT ![streams[s].owner] =
                        <<TranscriptionObject(data, s)>> \o @]
     ELSE emitted' = emitted
  /\ UNCHANGED <<elsewhere, variant, lastChunkAt, unrouted, crashed, status,
                 activeStreams, lastActivity,
                 recognizeStream, now, closeHits>>

\* recognizer 'data' on stream s.
Srv_onData(s, data) ==
  /\ Running("server")
  /\ s \in StreamIds
  /\ ~streams[s].errored
  /\ Connected(streams[s].owner)
  /\ Counted
  /\ streams' = [streams EXCEPT ![s].produced = Append(@, data)]
  /\ IF streams[s].onData /\ HasTopAlternative(data)
     THEN emitted' = Emit(streams[s].owner, TranscriptionObject(data, s))
     ELSE emitted' = emitted
  /\ UNCHANGED <<elsewhere, variant, lastChunkAt, unrouted, crashed, status,
                 activeStreams, lastActivity,
                 recognizeStream, now, closeHits>>

ServerTs ==
  \/ \E c \in Conns, q \in HandshakeQueries : Srv_connection(c, q)
  \/ \E c \in Conns : Srv_startTranscription(c)
  \/ \E c \in Conns, ch \in AudioInputs(nEvents + 1) : Srv_audio(c, ch)
  \/ \E c \in Conns : Srv_endTranscription(c)
  \/ \E c \in Conns : Srv_disconnect(c)
  \/ \E s \in StreamIds : Srv_onError(s)
  \/ \E s \in StreamIds, d \in Messages(nEvents + 1) : Srv_onData(s, d)

\* ======================= src/server/index.ts =============================

\* io.on('connection'): one stream per socket, both listeners attached,
\* stored with the time of connection.
Idx_connection(c) ==
  /\ Running("index")
  /\ IsNextSocket(c)
  /\ Len(streams) < MaxStreams
  /\ streams' = Append(streams, streamingRecognize(c, Request(DefaultLanguageCode),
                                                   "connection", TRUE, TRUE))
  /\ recognizeStream' = [recognizeStream EXCEPT ![c] = NextId]
  /\ activeStreams' = [activeStreams EXCEPT ![c] = NextId]
  /\ lastActivity' = [lastActivity EXCEPT ![c] = now]
  /\ lastChunkAt' = [lastChunkAt EXCEPT ![c] = now]
  /\ status' = [status EXCEPT ![c] = "connected"]
  /\ UNCHANGED <<elsewhere, variant, unrouted, crashed, emitted, now, nEvents, closeHits>>

\* Idx_audio with a fault: the chunk is written before it is validated.
Idx_audio_WritesFirst(c, audioChunk) ==
  /\ Running("index")
  /\ Connected(c)
  /\ Counted
  /\ LET connection == activeStreams[c] IN
       /\ streams' = IF connection # None
                     THEN Write(streams, connection, c, audioChunk)
                     ELSE streams
       /\ lastActivity' = IF connection # None
                          THEN [lastActivity EXCEPT ![c] = now]
                          ELSE lastActivity
       /\ emitted' = IF ~validateAudioInput(audioChunk)
                     THEN Emit(c, ErrorEvent("Invalid audio input"))
                     ELSE emitted
       /\ unrouted' = IF connection = None
                      THEN [unrouted EXCEPT ![c] = @ + 1]
                      ELSE unrouted
       /\ lastChunkAt' = IF connection # None
                         THEN [lastChunkAt EXCEPT ![c] = now]
                         ELSE lastChunkAt
  /\ UNCHANGED <<elsewhere, variant, crashed, status, activeStreams, recognizeStream,
                 now, closeHits>>

\* socket.on('audio'): validation first (a failure throws into the catch,
\* which emits the error), then the registry lookup.
Idx_audio(c, audioChunk) ==
  /\ Running("index")
  /\ Connected(c)
  /\ Counted
  /\ LET connection == activeStreams[c] IN
       IF ~validateAudioInput(audioChunk)
       THEN /\ emitted' = Emit(c, ErrorEvent("Invalid audio input"))
            /\ streams' = IF connection # None
                          THEN Drop(streams, connection, audioChunk)
                          ELSE streams
            /\ lastActivity' = lastActivity
            /\ unrouted' = IF connection = None
                           THEN [unrouted EXCEPT ![c] = @ + 1]
                           ELSE unrouted
       ELSE IF connection # None
       THEN /\ lastActivity' = [lastActivity EXCEPT ![c] = now]
            /\ streams' = Write(streams, connection, c, audioChunk)
            /\ emitted' = emitted
            /\ unrouted' = unrouted
       ELSE /\ unrouted' = [unrouted EXCEPT ![c] = @ + 1]
            /\ UNCHANGED <<streams, lastActivity, emitted>>
  /\ lastChunkAt' = IF activeStreams[c] # None
                    THEN [lastChunkAt EXCEPT ![c] = now]
                    ELSE lastChunkAt
  /\ UNCHANGED <<elsewhere, variant, crashed, status, activeStreams, recognizeStream,
                 now, closeHits>>

\* Idx_disconnect with a fault: the stream is ended, its entry kept.
Idx_disconnect_KeepsEntry(c) ==
  /\ Running("index")
  /\ Connected(c)
  /\ status' = [status EXCEPT ![c] = "disconnected"]
  /\ closeHits' = [closeHits EXCEPT ![c] = @ + 1]
  /\ LET connection == activeStreams[c] IN
       IF connection # None
       THEN streams' = End(streams, connection)
       ELSE streams' = streams
  /\ UNCHANGED <<elsewhere, variant, unrouted, crashed, recognizeStream,
                 emitted, now, nEvents, activeStreams, lastActivity,
                 lastChunkAt>>

Idx_disconnect(c) ==
  /\ Running("index")
  /\ Connected(c)
  /\ status' = [status EXCEPT ![c] = "disconnected"]
  /\ closeHits' = [closeHits EXCEPT ![c] = @ + 1]
  /\ LET connection == activeStreams[c] IN
       IF connection # None
       THEN /\ streams' = End(streams, connection)
            /\ activeStreams' = [activeStreams EXCEPT ![c] = None]
            /\ lastActivity' = [lastActivity EXCEPT ![c] = 0]
            /\ lastChunkAt' = [lastChunkAt EXCEPT ![c] = 0]
       ELSE UNCHANGED <<streams, activeStreams, lastActivity, lastChunkAt>>
  /\ UNCHANGED <<elsewhere, variant, unrouted, crashed, recognizeStream, emitted, now,
                 nEvents>>

\* Idx_cleanup with a fault: an entry idle for exactly 5 minutes is removed.
Idx_cleanup_AtThreshold ==
  /\ Running("index")
  /\ now < MaxTicks * CleanupIntervalMs
  /\ now' = now + CleanupIntervalMs
  /\ LET idle == {c \in Conns : activeStreams[c] # None
                                 /\ now' - lastActivity[c] >= InactivityMs}
         gone == {activeStreams[c] : c \in idle}
     IN /\ streams' = [s \in DOMAIN streams |->
                         IF s \in gone
                         THEN [streams[s] EXCEPT !.endCalls = @ + 1]
                         ELSE streams[s]]
        /\ activeStreams' = [c \in Conns |-> IF c \in idle THEN None ELSE activeStreams[c]]
        /\ lastActivity' = [c \in Conns |-> IF c \in idle THEN 0 ELSE lastActivity[c]]
        /\ lastChunkAt' = [c \in Conns |-> IF c \in idle THEN 0 ELSE lastChunkAt[c]]
        /\ closeHits' = [c \in Conns |-> IF c \in idle THEN closeHits[c] + 1 ELSE closeHits[c]]
  /\ UNCHANGED <<elsewhere, variant, unrouted, crashed, status, recognizeStream, emitted,
                 nEvents>>

\* Idx_cleanup with a fault: the idle streams are ended, their entries kept.
Idx_cleanup_KeepsEntry ==
  /\ Running("index")
  /\ now < MaxTicks * CleanupIntervalMs
  /\ now' = now + CleanupIntervalMs
  /\ LET idle == {c \in Conns : activeStreams[c] # None
                                 /\ now' - lastActivity[c] > InactivityMs}
         gone == {activeStreams[c] : c \in idle}
     IN /\ streams' = [s \in DOMAIN streams |->
                         IF s \in gone
                         THEN [streams[s] EXCEPT !.endCalls = @ + 1]
                         ELSE streams[s]]
        /\ closeHits' = [c \in Conns |-> IF c \in idle THEN closeHits[c] + 1 ELSE closeHits[c]]
  /\ UNCHANGED <<elsewhere, variant, lastChunkAt, unrouted, crashed, status,
                 activeStreams, lastActivity,
                 recognizeStream, emitted, nEvents>>

\* setInterval(..., 60000): the interval has elapsed once more; every entry
\* idle for more than 5 minutes is ended and deleted.
Idx_cleanup ==
  /\ Running("index")
  /\ now < MaxTicks * CleanupIntervalMs
  /\ now' = now + CleanupIntervalMs
  /\ LET idle == {c \in Conns : activeStreams[c] # None
                                 /\ now' - lastActivity[c] > InactivityMs}
         gone == {activeStreams[c] : c \in idle}
     IN /\ streams' = [s \in DOMAIN streams |->
                         IF s \in gone
                         THEN [streams[s] EXCEPT !.endCalls = @ + 1]
                         ELSE streams[s]]
        /\ activeStreams' = [c \in Conns |-> IF c \in idle THEN None ELSE activeStreams[c]]
        /\ lastActivity' = [c \in Conns |-> IF c \in idle THEN 0 ELSE lastActivity[c]]
        /\ lastChunkAt' = [c \in Conns |-> IF c \in idle THEN 0 ELSE lastChunkAt[c]]
        /\ closeHits' = [c \in Conns |-> IF c \in idle THEN closeHits[c] + 1 ELSE closeHits[c]]
  /\ UNCHANGED <<elsewhere, variant, unrouted, crashed, status, recognizeStream, emitted,
                 nEvents>>

Idx_onError(s) ==
  /\ Running("index")
  /\ s \in StreamIds
  /\ ~streams[s].errored
  /\ Connected(streams[s].owner)
  /\ Counted
  /\ streams' = [streams EXCEPT ![s].errored = TRUE]
  /\ emitted' = Emit(streams[s].owner, ErrorEvent("Transcription service error"))
  /\ UNCHANGED <<elsewhere, variant, lastChunkAt, unrouted, crashed, status,
                 activeStreams, lastActivity,
                 recognizeStream, now, closeHits>>

Idx_onData(s, data) ==
  /\ Running("index")
  /\ s \in StreamIds
  /\ ~streams[s].errored
  /\ Connected(streams[s].owner)
  /\ Counted
  /\ streams' = [streams EXCEPT ![s].produced = Append(@, data)]
  /\ IF HasTopAlternative(data)
     THEN emitted' = Emit(streams[s].owner, TranscriptionText(data, s))
     ELSE emitted' = emitted
  /\ UNCHANGED <<elsewhere, variant, lastChunkAt, unrouted, crashed, status,
                 activeStreams, lastActivity,
                 recognizeStream, now, closeHits>>

IndexTs ==
  \/ \E c \in Conns : Idx_connection(c)
  \/ \E c \in Conns, ch \in AudioInputs(nEvents + 1) : Idx_audio(c, ch)
  \/ \E c \in Conns : Idx_disconnect(c)
  \/ Idx_cleanup
  \/ \E s \in StreamIds : Idx_onError(s)
  \/ \E s \in StreamIds, d \in Messages(nEvents + 1) : Idx_onData(s, d)

\* ======================= src/server/index.js =============================

\* No registry: the stream lives in the connection closure only.
Js_connection(c) ==
  /\ Running("js")
  /\ IsNextSocket(c)
  /\ Len(streams) < MaxStreams
  /\ streams' = Append(streams, streamingRecognize(c, Request(DefaultLanguageCode),
                                                   "connection", TRUE, TRUE))
  /\ recognizeStream' = [recognizeStream EXCEPT ![c] = NextId]
  /\ status' = [status EXCEPT ![c] = "connected"]
  /\ UNCHANGED <<elsewhere, variant, lastChunkAt, unrouted, crashed, activeStreams,
                 lastActivity, emitted, now,
                 nEvents, closeHits>>

\* Js_audio with a fault: recognizeStream is one variable of the module,
\* holding the stream of whichever socket connected last.
Js_audio_SharedStream(c, audioChunk) ==
  /\ Running("js")
  /\ Connected(c)
  /\ Counted
  /\ streams' = Write(streams, Len(streams), c, audioChunk)
  /\ UNCHANGED <<elsewhere, variant, lastChunkAt, unrouted, crashed, status,
                 activeStreams, lastActivity,
                 recognizeStream, emitted, now, closeHits>>

Js_audio(c, audioChunk) ==
  /\ Running("js")
  /\ Connected(c)
  /\ Counted
  /\ streams' = Write(streams, recognizeStream[c], c, audioChunk)
  /\ UNCHANGED <<elsewhere, variant, lastChunkAt, unrouted, crashed, status,
                 activeStreams, lastActivity,
                 recognizeStream, emitted, now, closeHits>>

Js_disconnect(c) ==
  /\ Running("js")
  /\ Connected(c)
  /\ status' = [status EXCEPT ![c] = "disconnected"]
  /\ closeHits' = [closeHits EXCEPT ![c] = @ + 1]
  /\ streams' = End(streams, recognizeStream[c])
  /\ UNCHANGED <<elsewhere, variant, lastChunkAt, unrouted, crashed, activeStreams,
                 lastActivity, recognizeStream,
                 emitted, now, nEvents>>

\* .on('error'): console.error only.
Js_onError(s) ==
  /\ Running("js")
  /\ s \in StreamIds
  /\ ~streams[s].errored
  /\ Connected(streams[s].owner)
  /\ Counted
  /\ streams' = [streams EXCEPT ![s].errored = TRUE]
  /\ UNCHANGED <<elsewhere, variant, lastChunkAt, unrouted, crashed, status,
                 activeStreams, lastActivity,
                 recognizeStream, emitted, now, closeHits>>

Js_onData(s, data) ==
  /\ Running("js")
  /\ s \in StreamIds
  /\ ~streams[s].errored
  /\ Connected(streams[s].owner)
  /\ Counted
  /\ streams' = [streams EXCEPT ![s].produced = Append(@, data)]
  /\ IF HasTopAlternative(data)
     THEN emitted' = Emit(streams[s].owner, TranscriptionText(data, s))
     ELSE emitted' = emitted
  /\ UNCHANGED <<elsewhere, variant, lastChunkAt, unrouted, crashed, status,
                 activeStreams, lastActivity,
                 recognizeStream, now, closeHits>>

IndexJs ==
  \/ \E c \in Conns : Js_connection(c)
  \/ \E c \in Conns, ch \in AudioInputs(nEvents + 1) : Js_audio(c, ch)
  \/ \E c \in Conns : Js_disconnect(c)
  \/ \E s \in StreamIds : Js_onError(s)
  \/ \E s \in StreamIds, d \in Messages(nEvents + 1) : Js_onData(s, d)

Next == ServerTs \/ IndexTs \/ IndexJs

\* ======================= startup of the entry points =====================

\* What startup leaves as the constructors made it.
serving == <<crashed, status, streams, activeStreams, lastActivity,
             recognizeStream, emitted, now, nEvents, closeHits, unrouted,
             lastChunkAt>>

\* The process has loaded the entry point and nothing has run yet.
InitStartup ==
  /\ variant \in Variants
  /\ Fresh
  /\ phase = "loaded"
  /\ env \in Envs
  /\ OfflineIdle

\* server.ts, module level: configSchema.parse({...}); a ZodError thrown
\* here is uncaught and ends the process.
Srv_parseConfig ==
  /\ variant = "server"
  /\ phase = "loaded"
  /\ phase' = IF PortParses(env) THEN "configured" ELSE "exited"
  /\ UNCHANGED <<variant, env, serving, offline>>

\* server.ts startServer(): the SpeechClient gets keyFilename and, when
\* GOOGLE_CLOUD_CREDENTIALS is set, its JSON.parse; a throw lands in the
\* catch, which calls process.exit(1); otherwise httpServer.listen().
Srv_startServer ==
  /\ variant = "server"
  /\ phase = "configured"
  /\ phase' = IF env.GOOGLE_CLOUD_CREDENTIALS # Unset /\ ~CredentialsParse(env)
              THEN "exited"
              ELSE "listening"
  /\ UNCHANGED <<variant, env, serving, offline>>

\* index.ts, module level: JSON.parse(GOOGLE_CLOUD_CREDENTIALS || '{}') for
\* the SpeechClient, then httpServer.listen(PORT).
Idx_startup ==
  /\ variant = "index"
  /\ phase = "loaded"
  /\ phase' = IF env.GOOGLE_CLOUD_CREDENTIALS # Unset /\ ~CredentialsParse(env)
              THEN "exited"
              ELSE "listening"
  /\ UNCHANGED <<variant, env, serving, offline>>

\* index.js, module level: SpeechClient({ keyFilename: 'key.json' }), then
\* server.listen(port); the environment is not consulted for credentials.
Js_startup ==
  /\ variant = "js"
  /\ phase = "loaded"
  /\ phase' = "listening"
  /\ UNCHANGED <<variant, env, serving, offline>>

NextStartup == Srv_parseConfig \/ Srv_startServer \/ Idx_startup \/ Js_startup

SpecStartup == InitStartup /\ [][NextStartup]_vars

\* ======================= validateAudioInput, called alone =================

\* Buffer.readUInt16LE / readUInt32LE throw a RangeError when the bytes
\* asked for end beyond the buffer.
ReadThrows(buffer, offset, bytes) == offset + bytes > buffer.length

\* The call reaches a read that throws: the reads of checkWavHeader come
\* after the Buffer test, the size test, the length test and the two
\* toString comparisons, each read after the comparison before it.
validateThrows(audioChunk) ==
  /\ audioChunk.isBuffer
  /\ ~(audioChunk.length < minSize \/ audioChunk.length > maxSize)
  /\ ~(audioChunk.length < WavHeaderLen)
  /\ audioChunk.riff = "RIFF"
  /\ audioChunk.wave = "WAVE"
  /\ \/ ReadThrows(audioChunk, 20, 2)
     \/ /\ audioChunk.audioFormat = PcmFormat
        /\ \/ ReadThrows(audioChunk, 22, 2)
           \/ /\ audioChunk.numChannels = MonoChannels
              /\ ReadThrows(audioChunk, 24, 4)

\* The arguments tried: the lengths around every threshold of the code, a
\* right and a wrong value for each header field, Buffer or not.
ValidateInputs ==
  [isBuffer : BOOLEAN,
   length : {0, WavHeaderLen - 1, WavHeaderLen, minSize - 1, minSize, minSize + 1,
             maxSize - 1, maxSize, maxSize + 1},
   riff : {"RIFF", "RIFX"}, wave : {"WAVE", "AVI "},
   audioFormat : {PcmFormat, 3}, numChannels : {MonoChannels, 2},
   sampleRate : {SampleRate16k, 44100}]

InitValidate ==
  /\ variant = "index"
  /\ Fresh
  /\ phase = "listening"
  /\ env = DeployedEnv
  /\ vInput \in ValidateInputs
  /\ vResult = "pending"
  /\ ClientsIdle

\* validateAudioInput(vInput) runs to its return or to a throw.
Validate ==
  /\ vResult = "pending"
  /\ vResult' = IF validateThrows(vInput) THEN "threw"
                ELSE IF validateAudioInput(vInput) THEN "true"
                ELSE "false"
  /\ UNCHANGED <<variant, serving, phase, env, vInput, clients>>

NextValidate == Validate

SpecValidate == InitValidate /\ [][NextValidate]_vars

\* ======================= src/lib/websocket-manager.ts ====================
\* The browser's WebSocketManager: one WebSocket at a time, reconnection by
\* setTimeout, callbacks kept by an EventEmitter.  What a socket delivers
\* (open, close, error, message) is handled one event at a time.

Callbacks == {"f", "g"}

\* What the server's socket can deliver in a message: the two types onmessage
\* forwards, and anything else (another type, or text JSON.parse rejects).
MessageKinds == WsEvents \cup {"other"}

\* Everything outside the manager.
notWs == <<variant, serving, phase, env, vInput, vResult, ioVars, apVars>>

\* eventEmitter.emit(ev, ...): every listener of ev, in the order of
\* registration, once per registration.  msg is the number of the server
\* message that is forwarded, 0 when the manager itself raises the event.
\* (With no listener, emit('error') throws; each caller is an event handler
\* or a try block, and no field changes after the emit.)
Dispatch(ev, msg) ==
  [i \in 1..Len(listeners[ev]) |->
     [cb |-> listeners[ev][i], event |-> ev, msg |-> msg]]

\* eventEmitter.off(ev, cb): removes the most recently added instance of cb.
RemoveListener(q, cb) ==
  LET at == {i \in DOMAIN q : q[i] = cb}
  IN IF at = {} THEN q
     ELSE LET m == CHOOSE i \in at : \A j \in at : j <= i
          IN SubSeq(q, 1, m - 1) \o SubSeq(q, m + 1, Len(q))

\* The state the constructor leaves: connect() has run once, and new WebSocket
\* either returned a socket or threw (then handleReconnect ran).
InitWs ==
  /\ variant = "server"
  /\ Fresh
  /\ phase = "listening"
  /\ env = DeployedEnv
  /\ vInput = EmptyChunk
  /\ vResult = "pending"
  /\ IoIdle
  /\ ApIdle
  /\ listeners = [ev \in WsEvents |-> <<>>]
  /\ tries = 0
  /\ gaveUp = FALSE
  /\ stopped = FALSE
  /\ regs = <<>>
  /\ calls = <<>>
  /\ msgs = NoMsgs
  /\ \/ /\ sock = "connecting"
        /\ held = TRUE
        /\ nSockets = 1
        /\ reconnectAttempts = 0
        /\ timer = 0
     \/ /\ sock = "none"
        /\ held = FALSE
        /\ nSockets = 0
        /\ reconnectAttempts = 1
        /\ timer = reconnectDelay

\* handleReconnect() with the comparison off by one: a sixth attempt is made.
handleReconnect_OneMore ==
  IF reconnectAttempts > maxReconnectAttempts
  THEN /\ gaveUp' = TRUE
       /\ calls' = Dispatch("error", 0)
       /\ timer' = 0
       /\ UNCHANGED reconnectAttempts
  ELSE /\ reconnectAttempts' = reconnectAttempts + 1
       /\ timer' = reconnectDelay * reconnectAttempts'
       /\ UNCHANGED <<gaveUp, calls>>

\* handleReconnect(): gives up with an 'error' event once the attempts are
\* used, else counts one more and schedules connect().  No timer is pending
\* when it runs: a socket is only made once the timer has fired.
handleReconnect ==
  IF reconnectAttempts >= maxReconnectAttempts
  THEN /\ gaveUp' = TRUE
       /\ calls' = Dispatch("error", 0)
       /\ timer' = 0
       /\ UNCHANGED reconnectAttempts
  ELSE /\ reconnectAttempts' = reconnectAttempts + 1
       /\ timer' = reconnectDelay * reconnectAttempts'
       /\ UNCHANGED <<gaveUp, calls>>

\* socket.onopen without the reset of the attempt counter.
Ws_open_KeepsCount ==
  /\ sock = "connecting"
  /\ sock' = "open"
  /\ tries' = 0
  /\ UNCHANGED <<notWs, held, reconnectAttempts, timer, listeners, nSockets,
                 gaveUp, stopped, regs, calls, msgs>>

\* socket.onopen
Ws_open ==
  /\ sock = "connecting"
  /\ sock' = "open"
  /\ reconnectAttempts' = 0
  /\ tries' = 0
  /\ UNCHANGED <<notWs, held, timer, listeners, nSockets, gaveUp, stopped,
                 regs, calls, msgs>>

\* socket.onclose: the handler stays on the socket after disconnect().
Ws_close ==
  /\ sock \in {"connecting", "open", "closing"}
  /\ sock' = "closed"
  /\ handleReconnect
  /\ UNCHANGED <<notWs, held, listeners, nSockets, tries, stopped, regs, msgs>>

\* socket.onerror
Ws_error ==
  /\ sock \in {"connecting", "open"}
  /\ msgs.n < MaxMsgs
  /\ msgs' = [n |-> msgs.n + 1, kind |-> "onerror"]
  /\ calls' = Dispatch("error", 0)
  /\ UNCHANGED <<notWs, sock, held, reconnectAttempts, timer, listeners,
                 nSockets, tries, gaveUp, stopped, regs>>

\* The timer of handleReconnect fires and calls connect(); created tells
\* whether new WebSocket returns a socket or throws.
Ws_timer(created) ==
  /\ timer # 0
  /\ created => nSockets < MaxSockets
  /\ tries' = tries + 1
  /\ IF held /\ sock = "open"
     THEN /\ timer' = 0
          /\ UNCHANGED <<sock, held, nSockets, reconnectAttempts, gaveUp, calls>>
     ELSE IF created
          THEN /\ sock' = "connecting"
               /\ held' = TRUE
               /\ nSockets' = nSockets + 1
               /\ timer' = 0
               /\ UNCHANGED <<reconnectAttempts, gaveUp, calls>>
          ELSE /\ handleReconnect
               /\ UNCHANGED <<sock, held, nSockets>>
  /\ UNCHANGED <<notWs, listeners, stopped, regs, msgs>>

\* disconnect()
Ws_disconnect ==
  /\ stopped' = TRUE
  /\ held' = FALSE
  /\ sock' = IF held /\ sock \in {"connecting", "open"} THEN "closing" ELSE sock
  /\ UNCHANGED <<notWs, reconnectAttempts, timer, listeners, nSockets, tries,
                 gaveUp, regs, calls, msgs>>

\* socket.onmessage
Ws_message(kind) ==
  /\ sock = "open"
  /\ msgs.n < MaxMsgs
  /\ msgs' = [n |-> msgs.n + 1, kind |-> kind]
  /\ calls' = IF kind \in WsEvents THEN Dispatch(kind, msgs'.n) ELSE <<>>
  /\ UNCHANGED <<notWs, sock, held, reconnectAttempts, timer, listeners,
                 nSockets, tries, gaveUp, stopped, regs>>

\* onTranscription(cb), onError(cb)
Ws_subscribe(ev, cb) ==
  /\ Len(regs) < MaxRegs
  /\ listeners' = [listeners EXCEPT ![ev] = Append(@, cb)]
  /\ regs' = Append(regs, [event |-> ev, cb |-> cb, active |-> TRUE])
  /\ UNCHANGED <<notWs, sock, held, reconnectAttempts, timer, nSockets, tries,
                 gaveUp, stopped, calls, msgs>>

\* The function onTranscription or onError returned for registration r.
Ws_unsubscribe(r) ==
  /\ r \in DOMAIN regs
  /\ listeners' = [listeners EXCEPT
                     ![regs[r].event] = RemoveListener(@, regs[r].cb)]
  /\ regs' = [regs EXCEPT ![r].active = FALSE]
  /\ UNCHANGED <<notWs, sock, held, reconnectAttempts, timer, nSockets, tries,
                 gaveUp, stopped, calls, msgs>>

NextWs ==
  \/ Ws_open
  \/ Ws_close
  \/ Ws_error
  \/ \E created \in BOOLEAN : Ws_timer(created)
  \/ Ws_disconnect
  \/ \E kind \in MessageKinds : Ws_message(kind)
  \/ \E ev \in WsEvents, cb \in Callbacks : Ws_subscribe(ev, cb)
  \/ \E r \in 1..MaxRegs : Ws_unsubscribe(r)

SpecWs == InitWs /\ [][NextWs]_vars

\* ======================= src/app/api/quran/route.ts =======================
\* The socket.io WebSocketManager: audio is emitted while connected and kept
\* in audioBuffer while not; the 'connect' handler flushes the buffer.  Each
\* call and each handler runs to completion.  A chunk with data is known by
\* its number, the count of such chunks passed to sendAudio so far; the
\* callbacks the handlers notify hold no state of the manager.

\* An empty Buffer, and the k-th chunk with data.
IoEmpty == [id |-> 0, length |-> 0]
IoData(k) == [id |-> k, length |-> 320]

\* What sendAudio can be passed.
IoChunks == {IoEmpty} \cup {IoData(k) : k \in 1..MaxChunks}

\* Everything outside the manager.
notIo == <<variant, serving, phase, env, vInput, vResult, wsVars, apVars>>

\* sendAudio(chunk) with a buffer that is never trimmed.
sendAudio_NoDiscard(connected, buffer, emits, chunk) ==
  IF chunk.length = 0
  THEN [buffer |-> buffer, emits |-> emits]
  ELSE IF connected
       THEN [buffer |-> buffer, emits |-> Append(emits, chunk.id)]
       ELSE [buffer |-> Append(buffer, chunk.id), emits |-> emits]

\* sendAudio(chunk), on the manager's buffer and the 'audio' events emitted
\* so far by the running call; connected is this.isConnected && this.socket.
sendAudio(connected, buffer, emits, chunk) ==
  IF chunk.length = 0
  THEN [buffer |-> buffer, emits |-> emits]
  ELSE IF connected
       THEN [buffer |-> buffer, emits |-> Append(emits, chunk.id)]
       ELSE LET pushed == Append(buffer, chunk.id)
            IN [buffer |-> IF Len(pushed) > AudioBufferCap
                           THEN Tail(pushed) ELSE pushed,
                emits |-> emits]

\* flushAudioBuffer() taking the newest chunk first (pop for shift).
RECURSIVE flushAudioBuffer_NewestFirst(_, _, _)
flushAudioBuffer_NewestFirst(connected, buffer, emits) ==
  IF Len(buffer) > 0
  THEN LET chunk == IoData(buffer[Len(buffer)])
           sent == sendAudio(connected, SubSeq(buffer, 1, Len(buffer) - 1),
                             emits, chunk)
       IN flushAudioBuffer_NewestFirst(connected, sent.buffer, sent.emits)
  ELSE [buffer |-> buffer, emits |-> emits]

\* flushAudioBuffer(): shifts chunk after chunk into sendAudio while the
\* buffer is not empty.
RECURSIVE flushAudioBuffer(_, _, _)
flushAudioBuffer(connected, buffer, emits) ==
  IF Len(buffer) > 0
  THEN LET chunk == IoData(Head(buffer))
           sent == sendAudio(connected, Tail(buffer), emits, chunk)
       IN flushAudioBuffer(connected, sent.buffer, sent.emits)
  ELSE [buffer |-> buffer, emits |-> emits]

\* The chunk of the latest 'audio' event once emits have been emitted.
SentAfter(emits) == IF emits = <<>> THEN lastSent ELSE emits[Len(emits)]

\* The constructor has returned: every field holds its initialiser and the
\* fetch of the socket's URL is outstanding.
InitIo ==
  /\ variant = "server"
  /\ Fresh
  /\ phase = "listening"
  /\ env = DeployedEnv
  /\ vInput = EmptyChunk
  /\ vResult = "pending"
  /\ WsIdle
  /\ IoIdle
  /\ ApIdle

\* initSocket settles and initializeSocket(url) runs; created tells whether
\* io(url, ...) returns a socket or throws.
Io_initializeSocket(created) ==
  /\ ioSocket = "pending"
  /\ ioSocket' = IF created THEN "idle" ELSE "absent"
  /\ ioLast' = [op |-> "initializeSocket", chunk |-> 0, emits |-> <<>>]
  /\ UNCHANGED <<notIo, isConnected, audioBuffer, ioAttempts, lastSent,
                 nChunks, nDirect, nIoEvents>>

\* connect(): socket.connect() on a socket that is not connected; without a
\* socket the call repeats itself two seconds later.
Io_connect ==
  /\ ioSocket' = IF ioSocket = "idle" THEN "connecting" ELSE ioSocket
  /\ ioLast' = [op |-> "connect", chunk |-> 0, emits |-> <<>>]
  /\ UNCHANGED <<notIo, isConnected, audioBuffer, ioAttempts, lastSent,
                 nChunks, nDirect, nIoEvents>>

\* socket.on('connect')
Io_onConnect ==
  /\ ioSocket = "connecting"
  /\ nIoEvents < MaxIoEvents
  /\ nIoEvents' = nIoEvents + 1
  /\ ioSocket' = "connected"
  /\ isConnected' = TRUE
  /\ ioAttempts' = 0
  /\ LET flushed == flushAudioBuffer(isConnected', audioBuffer, <<>>)
     IN /\ audioBuffer' = flushed.buffer
        /\ ioLast' = [op |-> "onConnect", chunk |-> 0, emits |-> flushed.emits]
        /\ lastSent' = SentAfter(flushed.emits)
  /\ UNCHANGED <<notIo, nChunks, nDirect>>

\* socket.on('disconnect'): the server or the transport ended the
\* connection; reconnects tells whether socket.io tries again by itself.
Io_onDisconnect(reconnects) ==
  /\ ioSocket = "connected"
  /\ nIoEvents < MaxIoEvents
  /\ nIoEvents' = nIoEvents + 1
  /\ ioSocket' = IF reconnects THEN "connecting" ELSE "idle"
  /\ isConnected' = FALSE
  /\ ioLast' = [op |-> "onDisconnect", chunk |-> 0, emits |-> <<>>]
  /\ UNCHANGED <<notIo, audioBuffer, ioAttempts, lastSent, nChunks, nDirect>>

\* socket.on('connect_error'); retries tells whether socket.io has attempts
\* left.
Io_onConnectError(retries) ==
  /\ ioSocket = "connecting"
  /\ nIoEvents < MaxIoEvents
  /\ nIoEvents' = nIoEvents + 1
  /\ ioSocket' = IF retries THEN "connecting" ELSE "idle"
  /\ isConnected' = FALSE
  /\ ioAttempts' = ioAttempts + 1
  /\ ioLast' = [op |-> "onConnectError", chunk |-> 0, emits |-> <<>>]
  /\ UNCHANGED <<notIo, audioBuffer, lastSent, nChunks, nDirect>>

\* disconnect(): socket.disconnect() runs the 'disconnect' handler of a
\* connected socket before it returns.
Io_disconnect ==
  /\ nIoEvents < MaxIoEvents
  /\ nIoEvents' = nIoEvents + 1
  /\ ioSocket' = IF ioSocket \in {"pending", "absent"} THEN ioSocket ELSE "idle"
  /\ audioBuffer' = <<>>
  /\ isConnected' = FALSE
  /\ ioLast' = [op |-> "disconnect", chunk |-> 0, emits |-> <<>>]
  /\ UNCHANGED <<notIo, ioAttempts, lastSent, nChunks, nDirect>>

\* sendAudio(chunk)
Io_sendAudio(chunk) ==
  /\ chunk.length > 0 =>
       /\ nChunks < MaxChunks
       /\ chunk.id = nChunks + 1
       /\ isConnected => nDirect < MaxDirect
  /\ nChunks' = IF chunk.length > 0 THEN nChunks + 1 ELSE nChunks
  /\ nDirect' = IF chunk.length > 0 /\ isConnected THEN nDirect + 1 ELSE nDirect
  /\ LET hasSocket == ioSocket \notin {"pending", "absent"}
         sent == sendAudio(isConnected /\ hasSocket, audioBuffer, <<>>, chunk)
     IN /\ audioBuffer' = sent.buffer
        /\ ioLast' = [op |-> "sendAudio", chunk |-> chunk.id, emits |-> sent.emits]
        /\ lastSent' = SentAfter(sent.emits)
  /\ UNCHANGED <<notIo, ioSocket, isConnected, ioAttempts, nIoEvents>>

NextIo ==
  \/ \E created \in BOOLEAN : Io_initializeSocket(created)
  \/ Io_connect
  \/ Io_onConnect
  \/ \E reconnects \in BOOLEAN : Io_onDisconnect(reconnects)
  \/ \E retries \in BOOLEAN : Io_onConnectError(retries)
  \/ Io_disconnect
  \/ \E chunk \in IoChunks : Io_sendAudio(chunk)

SpecIo == InitIo /\ [][NextIo]_vars

\* ======================= src/lib/audio-processor.ts, LiveTracker =========
\* AudioProcessor objects and the LiveTracker component of
\* src/unnamed/part_000 that makes them.  A getUserMedia call, the stream it
\* resolves to and the MediaRecorder made for that stream share one number,
\* their place in acqs.  A recorder is "none" until it is constructed,
\* "started" once start() has been called, "recording" once its start event
\* has been handled, "stopping" once stop() has been called ("cut" when that
\* happens ahead of the start event) and "inactive" after its stop event.
\* Calls and event handlers run to completion; the component has rendered
\* between two of them.  The data events of a recorder change none of these
\* fields.

\* Everything outside the component and its processors.
notAp == <<variant, serving, phase, env, vInput, vResult, wsVars, ioVars>>

\* The fields of an AudioProcessor after its constructor, and after cleanup().
NewProcessor == [stream |-> 0, recorder |-> 0, isRecording |-> FALSE]

\* A getUserMedia call of processor p that has not settled.
Requested(p) == [proc |-> p, tracks |-> "requested", rec |-> "none"]

\* startRecording() of processor p, up to its await: the getUserMedia calls
\* made so far, given the processors ps.
startRecording(ps, p) ==
  IF ps[p].isRecording THEN acqs ELSE Append(acqs, Requested(p))

\* recorder.stop() on recorder r.
Stopped(as, r) ==
  [as EXCEPT ![r].rec = IF @ = "started" THEN "cut"
                        ELSE IF @ = "recording" THEN "stopping"
                        ELSE @]

\* cleanup() of processor p: the tracks of this.stream are stopped.
Released(as, ps, p) ==
  IF ps[p].stream # 0 THEN [as EXCEPT ![ps[p].stream].tracks = "stopped"] ELSE as

\* stopRecording() of processor p; throws tells whether this browser's
\* recorder.stop() throws on a recorder that is not recording.
stopRecording(ps, as, p, throws) ==
  IF ~ps[p].isRecording \/ ps[p].recorder = 0
  THEN [procs |-> ps, acqs |-> as, failed |-> FALSE]
  ELSE IF as[ps[p].recorder].rec \notin {"started", "recording"} /\ throws
       THEN [procs |-> ps, acqs |-> as, failed |-> TRUE]
       ELSE [procs |-> [ps EXCEPT ![p] = NewProcessor],
             acqs |-> Released(Stopped(as, ps[p].recorder), ps, p),
             failed |-> FALSE]

\* The component is mounted and has made no processor.
InitAudio ==
  /\ variant = "server"
  /\ Fresh
  /\ phase = "listening"
  /\ env = DeployedEnv
  /\ vInput = EmptyChunk
  /\ vResult = "pending"
  /\ WsIdle
  /\ IoIdle
  /\ ApIdle

\* toggleRecording(): audioProcessor() constructs a processor, which is
\* stopped when the last render saw a recording and started otherwise.
Lt_toggleRecording(throws) ==
  /\ Len(procs) < MaxProcessors
  /\ LET p == Len(procs) + 1
         made == Append(procs, NewProcessor)
     IN IF uiIsRecording
        THEN LET done == stopRecording(made, acqs, p, throws)
             IN /\ procs' = done.procs
                /\ acqs' = done.acqs
                /\ uiIsRecording' = IF done.failed THEN FALSE ELSE uiIsRecording
        ELSE /\ Len(acqs) < MaxAcqs
             /\ procs' = made
             /\ acqs' = startRecording(made, p)
             /\ UNCHANGED uiIsRecording
  /\ UNCHANGED <<notAp, wsIsRecording>>

\* startRecording() called on processor p.
Ap_startRecording(p) ==
  /\ p \in DOMAIN procs
  /\ Len(acqs) < MaxAcqs
  /\ acqs' = startRecording(procs, p)
  /\ UNCHANGED <<notAp, procs, uiIsRecording, wsIsRecording>>

\* getUserMedia call i resolves and startRecording() goes on; supported tells
\* whether getSupportedMimeType() finds a type or throws.
Ap_streamGranted(i, supported) ==
  /\ i \in DOMAIN acqs
  /\ acqs[i].tracks = "requested"
  /\ LET p == acqs[i].proc
     IN IF supported
        THEN /\ procs' = [procs EXCEPT ![p].stream = i, ![p].recorder = i]
             /\ acqs' = [acqs EXCEPT ![i].tracks = "live", ![i].rec = "started"]
             /\ UNCHANGED uiIsRecording
        ELSE /\ procs' = [procs EXCEPT ![p].stream = i]
             /\ acqs' = [acqs EXCEPT ![i].tracks = "live"]
             /\ uiIsRecording' = FALSE
  /\ UNCHANGED <<notAp, wsIsRecording>>

\* getUserMedia call i rejects: the catch of startRecording() reports it.
Ap_streamDenied(i) ==
  /\ i \in DOMAIN acqs
  /\ acqs[i].tracks = "requested"
  /\ acqs' = [acqs EXCEPT ![i].tracks = "denied"]
  /\ uiIsRecording' = FALSE
  /\ UNCHANGED <<notAp, procs, wsIsRecording>>

\* recorder.onstart of recorder i, with the component's onStart.
Ap_onstart(i) ==
  /\ i \in DOMAIN acqs
  /\ acqs[i].rec \in {"started", "cut"}
  /\ acqs' = [acqs EXCEPT ![i].rec = IF @ = "started" THEN "recording"
                                     ELSE "stopping"]
  /\ procs' = [procs EXCEPT ![acqs[i].proc].isRecording = TRUE]
  /\ wsIsRecording' = TRUE
  /\ uiIsRecording' = TRUE
  /\ UNCHANGED notAp

\* recorder.onstop of recorder i, with the component's onStop.
Ap_onstop(i) ==
  /\ i \in DOMAIN acqs
  /\ acqs[i].rec = "stopping"
  /\ acqs' = [acqs EXCEPT ![i].rec = "inactive"]
  /\ procs' = [procs EXCEPT ![acqs[i].proc].isRecording = FALSE]
  /\ wsIsRecording' = FALSE
  /\ uiIsRecording' = FALSE
  /\ UNCHANGED notAp

\* recorder.onerror of recorder i, with the component's onError; the
\* recorder stops and its stop event follows.
Ap_onerror(i) ==
  /\ i \in DOMAIN acqs
  /\ acqs[i].rec = "recording"
  /\ acqs' = [acqs EXCEPT ![i].rec = "stopping"]
  /\ procs' = [procs EXCEPT ![acqs[i].proc].isRecording = FALSE]
  /\ uiIsRecording' = FALSE
  /\ UNCHANGED <<notAp, wsIsRecording>>

\* stopRecording() called on processor p.
Ap_stopRecording(p, throws) ==
  /\ p \in DOMAIN procs
  /\ LET done == stopRecording(procs, acqs, p, throws)
     IN /\ procs' = done.procs
        /\ acqs' = done.acqs
        /\ uiIsRecording' = IF done.failed THEN FALSE ELSE uiIsRecording
  /\ UNCHANGED <<notAp, wsIsRecording>>

NextAudio ==
  \/ \E throws \in BOOLEAN : Lt_toggleRecording(throws)
  \/ \E p \in 1..MaxProcessors : Ap_startRecording(p)
  \/ \E i \in 1..MaxAcqs, supported \in BOOLEAN : Ap_streamGranted(i, supported)
  \/ \E i \in 1..MaxAcqs : Ap_streamDenied(i)
  \/ \E i \in 1..MaxAcqs : Ap_onstart(i)
  \/ \E i \in 1..MaxAcqs : Ap_onstop(i)
  \/ \E i \in 1..MaxAcqs : Ap_onerror(i)
  \/ \E p \in 1..MaxProcessors, throws \in BOOLEAN : Ap_stopRecording(p, throws)

SpecAudio == InitAudio /\ [][NextAudio]_vars

\* ======================= the claims ======================================

Last(q) == q[Len(q)]
IsTranscriptionOf(e, s) == e.event = "transcription" /\ e.stream = s
IsRecognizerError(e) ==
  e.event = "error"
  /\ e.message \in {"Transcription error occurred", "Transcription service error"}

\* The transcription events emitted to the owner of stream s for stream s.
Relayed(s) ==
  LET FromS(e) == IsTranscriptionOf(e, s)
  IN SelectSeq(emitted[streams[s].owner], FromS)
\* The messages of stream s that carry a top alternative.
WithTop(s) == SelectSeq(streams[s].produced, HasTopAlternative)
\* The stream that holds the connection's session.
SessionOf(c) == IF variant = "js" THEN recognizeStream[c] ELSE activeStreams[c]
StreamsOf(c) == {s \in StreamIds : streams[s].owner = c}

\* C1: once startTranscription has been handled, every valid chunk sent
\* afterwards is forwarded in arrival order to the newly opened stream, and
\* every result that stream produces is delivered to the client as a
\* transcription event, in the order produced.
C1_StartForwardsAndRelays ==
  \A s \in StreamIds :
    streams[s].openedBy = "startTranscription" =>
      /\ SelectSeq(streams[s].written, validateAudioInput)
           = SelectSeq(streams[s].fed, validateAudioInput)
      /\ Len(Relayed(s)) = Len(WithTop(s))
      /\ \A i \in 1..Len(WithTop(s)) :
           /\ Relayed(s)[i].text = WithTop(s)[i].results[1].alternatives[1].transcript
           /\ Relayed(s)[i].isFinal = WithTop(s)[i].results[1].isFinal

\* C2: when startTranscription registers a second stream for a socket id
\* that already has one, the first stream has received exactly one end call
\* by the time the second is stored.
C2_RegisterEndsPrior ==
  [][\A c \in Conns :
       (activeStreams[c] # None /\ activeStreams'[c] # None
        /\ activeStreams'[c] # activeStreams[c])
       => streams'[activeStreams[c]].endCalls = 1]_vars

\* C3: in every reachable state every connection has at most one live
\* recognizer stream (opened on its behalf and not yet ended).
C3_AtMostOneLive ==
  \A c \in Conns :
    Cardinality({s \in StreamsOf(c) : streams[s].endCalls = 0}) <= 1

\* C4: a disconnect of a client with an open session gives the session's
\* stream exactly one end call and leaves no registry entry for the socket
\* id; nothing ends that stream again or re-registers the id afterwards.
C4_DisconnectEndsOnce ==
  [][\A c \in Conns :
       /\ (Connected(c) /\ status'[c] = "disconnected" /\ SessionOf(c) # None)
          => /\ streams[SessionOf(c)].endCalls = 0
             /\ streams'[SessionOf(c)].endCalls = 1
             /\ activeStreams'[c] = None
       /\ status[c] = "disconnected"
          => /\ activeStreams'[c] = None
             /\ \A s \in StreamsOf(c) : streams'[s].endCalls = streams[s].endCalls
    ]_vars

C4_Witness ==
  \E c \in Conns :
    /\ status[c] = "disconnected"
    /\ closeHits[c] = 1
    /\ activeStreams[c] = None
    /\ \E s \in StreamsOf(c) : streams[s].endCalls = 1 /\ Len(streams[s].written) > 0

\* C5: when the stream of an open session raises an error, the owning client
\* gets exactly one error event for it and the session is closed: the stream
\* is ended and is no longer the connection's registered stream.
C5_ErrorClosesSession ==
  \A c \in Conns :
    Connected(c) =>
      /\ Len(SelectSeq(emitted[c], IsRecognizerError))
           = Cardinality({s \in StreamsOf(c) : streams[s].errored})
      /\ \A s \in StreamsOf(c) :
           streams[s].errored => streams[s].endCalls = 1 /\ SessionOf(c) # s

\* C6: after a recognizer error on a connection's session, no chunk arriving
\* for that connection is written to the stream that raised the error.
C6_NoWriteAfterError ==
  [][\A s \in StreamIds :
       streams[s].errored => streams'[s].written = streams[s].written]_vars

\* C7: a recognizer stream is only ever opened by the connection handler of
\* its socket or by a startTranscription event of its socket, never in a
\* step in which a recognizer errors, a stream is ended or the timer fires.
C7_OpenedOnlyOnRequest ==
  [][Len(streams') # Len(streams) =>
       /\ Len(streams') = Len(streams) + 1
       /\ LET n == Last(streams') IN
            \/ /\ n.openedBy = "connection"
               /\ status[n.owner] = "new" /\ status'[n.owner] = "connected"
            \/ /\ n.openedBy = "startTranscription"
               /\ Connected(n.owner) /\ status' = status
               /\ activeStreams'[n.owner] = Len(streams')
       /\ \A s \in StreamIds :
            /\ streams'[s].errored = streams[s].errored
            /\ streams'[s].endCalls = streams[s].endCalls
       /\ now' = now /\ emitted' = emitted
    ]_vars

C7_Witness ==
  /\ \E s \in StreamIds : streams[s].openedBy = "connection" /\ streams[s].errored
  /\ \E s \in StreamIds : streams[s].openedBy = "startTranscription"
  /\ \E s \in StreamIds : streams[s].endCalls = 1
  /\ Len(streams) = 2

\* C8: a chunk that fails validation, arriving on a connection with an open
\* session, causes exactly one error event to that client, is not written to
\* the stream, and leaves the session registered and open.
C8_InvalidChunkRejected ==
  [][\A s \in StreamIds :
       (Len(streams'[s].fed) = Len(streams[s].fed) + 1
        /\ ~validateAudioInput(Last(streams'[s].fed)))
       => /\ streams'[s].written = streams[s].written
          /\ streams'[s].endCalls = streams[s].endCalls
          /\ activeStreams' = activeStreams
          /\ Len(emitted'[streams[s].owner]) = Len(emitted[streams[s].owner]) + 1
          /\ Last(emitted'[streams[s].owner]).event = "error"
    ]_vars

C10_CloseIdempotent ==
  [][/\ \A s \in DOMAIN streams' : streams'[s].endCalls <= 1
     /\ \A c \in Conns :
          closeHits'[c] # closeHits[c] =>
            /\ emitted' = emitted /\ crashed' = crashed
            /\ IF SessionOf(c) # None
               THEN streams'[SessionOf(c)].endCalls = 1
               ELSE \A s \in StreamsOf(c) : streams'[s] = streams[s]
    ]_vars

C10_Witness ==
  \E c \in Conns :
    /\ closeHits[c] >= 2
    /\ \A s \in StreamsOf(c) : streams[s].endCalls = 1
    /\ Cardinality(StreamsOf(c)) = 1

\* C11: a closing event (endTranscription, disconnect, the idle sweep)
\* leaves the socket id without a registry entry, and an absent entry stays
\* absent except in a step that opens a new stream for that socket id and
\* stores it.
C11_UnregisteredStaysAbsent ==
  [][\A c \in Conns :
       /\ closeHits'[c] # closeHits[c] => activeStreams'[c] = None
       /\ (activeStreams[c] = None /\ activeStreams'[c] # None) =>
            /\ Len(streams') = Len(streams) + 1
            /\ activeStreams'[c] = Len(streams')
            /\ Last(streams').owner = c
            /\ Last(streams').endCalls = 0]_vars

\* A socket whose entry was removed sent a chunk, the lookup found nothing,
\* and the entry is still absent.
C11_Witness ==
  \E c \in Conns :
     /\ Connected(c)
     /\ closeHits[c] >= 1
     /\ unrouted[c] >= 1
     /\ activeStreams[c] = None
     /\ variant # "js"

\* C12: at each firing of the cleanup interval (the only step that moves
\* the clock), every registered entry whose last activity lies more than
\* InactivityMs before the firing time is deleted and its stream ended once;
\* every other registered entry is kept with its stream and its last
\* activity untouched.
C12_SweepRemovesExactlyIdle ==
  [][now' # now =>
       \A c \in Conns : activeStreams[c] # None =>
          IF now' - lastActivity[c] > InactivityMs
          THEN /\ activeStreams'[c] = None
               /\ streams'[activeStreams[c]].endCalls = streams[activeStreams[c]].endCalls + 1
          ELSE /\ activeStreams'[c] = activeStreams[c]
               /\ lastActivity'[c] = lastActivity[c]
               /\ streams'[activeStreams[c]] = streams[activeStreams[c]]]_vars

\* After a firing, one socket's entry has been swept, its stream ended, and
\* another socket's entry, idle for exactly the threshold, is still there.
C12_Witness ==
  \E c, d \in Conns :
     /\ Connected(c) /\ closeHits[c] = 1 /\ activeStreams[c] = None
     /\ \A s \in StreamsOf(c) : streams[s].endCalls = 1
     /\ activeStreams[d] # None
     /\ now - lastActivity[d] = InactivityMs
     /\ streams[activeStreams[d]].endCalls = 0

\* C13: a stream on which end() has been called receives no further
\* write(), stays ended (its end count never goes back) and is never stored
\* in the registry again; chunks that arrive later are written only to
\* streams opened after it.
C13_NoWriteAfterEnd ==
  [][\A s \in StreamIds : streams[s].endCalls > 0 =>
       /\ streams'[s].written = streams[s].written
       /\ streams'[s].endCalls >= streams[s].endCalls
       /\ \A c \in Conns : activeStreams'[c] # s]_vars

\* A socket's first stream took a chunk and was ended; a stream opened after
\* it for the same socket took the next chunk.
C13_Witness ==
  \E s, n \in StreamIds :
     /\ s < n
     /\ streams[s].owner = streams[n].owner
     /\ streams[s].endCalls = 1 /\ Len(streams[s].written) = 1
     /\ streams[n].endCalls = 0 /\ Len(streams[n].written) = 1
     /\ activeStreams[streams[n].owner] = n

\* C14: a chunk whose lookup finds no registry entry for its socket id is
\* written to no stream, opens no stream, changes no registry entry, and
\* makes the server emit at most one event, an 'error', to that socket only.
C14_ChunkWithoutSession ==
  [][\A c \in Conns : unrouted'[c] # unrouted[c] =>
       /\ streams' = streams
       /\ activeStreams' = activeStreams
       /\ recognizeStream' = recognizeStream
       /\ lastActivity' = lastActivity
       /\ \A d \in Conns \ {c} : emitted'[d] = emitted[d]
       /\ \/ emitted'[c] = emitted[c]
          \/ /\ Len(emitted'[c]) = Len(emitted[c]) + 1
             /\ emitted'[c] = Append(emitted[c], Last(emitted'[c]))
             /\ Last(emitted'[c]).event = "error"]_vars

\* Two chunks of a socket found no entry; each was answered by one 'No
\* active transcription stream' error and none reached the ended stream.
C14_Witness ==
  \E c \in Conns :
     /\ unrouted[c] = 2
     /\ Len(emitted[c]) = 2
     /\ \A i \in 1..2 : emitted[c][i] = ErrorEvent("No active transcription stream")
     /\ \A s \in StreamsOf(c) : streams[s].written = <<>>

\* C15: when the recognizer sends a message on a stream, the owning socket
\* gets one 'transcription' event if and only if the message has a first
\* result with a top alternative; the event carries that alternative's
\* transcript, the result's isFinal and the alternative's confidence.  A
\* message without one emits nothing.  Either way no 'error' is emitted and
\* the stream stays registered and not ended.
C15_TranscriptionPayload ==
  [][\A s \in StreamIds : streams'[s].produced # streams[s].produced =>
       LET data == Last(streams'[s].produced)
           c == streams[s].owner
       IN /\ activeStreams' = activeStreams
          /\ streams'[s].endCalls = streams[s].endCalls
          /\ IF HasTopAlternative(data)
             THEN /\ Len(emitted'[c]) = Len(emitted[c]) + 1
                  /\ LET e == Last(emitted'[c]) IN
                       /\ e.event = "transcription"
                       /\ e.text = data.results[1].alternatives[1].transcript
                       /\ "isFinal" \in DOMAIN e
                       /\ e.isFinal = data.results[1].isFinal
                       /\ "confidence" \in DOMAIN e
                       /\ e.confidence = data.results[1].alternatives[1].confidence
             ELSE emitted' = emitted]_vars

\* C16: the 'transcription' events a socket got from a stream are, in this
\* order, the payloads of the messages with a top alternative that the
\* recognizer sent on that stream: none reordered, none duplicated, so an
\* interim result is never delivered after the final result that followed
\* it.  (A stream without 'data' listener delivers nothing.)
C16_RelayedInOrder ==
  \A s \in StreamIds :
     LET payload(data) == IF variant = "server"
                          THEN TranscriptionObject(data, s)
                          ELSE TranscriptionText(data, s)
     IN IF streams[s].onData
        THEN /\ Len(Relayed(s)) = Len(WithTop(s))
             /\ \A i \in 1..Len(WithTop(s)) : Relayed(s)[i] = payload(WithTop(s)[i])
        ELSE Relayed(s) = <<>>

\* src/server.ts: the recognizer sent an interim result, a message without
\* result and a final result on one stream; the socket got the interim
\* event first and the final event second.
C16_Witness ==
  \E s \in StreamIds :
     /\ variant = "server"
     /\ Len(streams[s].produced) = 3
     /\ ~HasTopAlternative(streams[s].produced[2])
     /\ Len(Relayed(s)) = 2
     /\ ~Relayed(s)[1].isFinal /\ Relayed(s)[1].confidence = 1
     /\ Relayed(s)[2].isFinal /\ Relayed(s)[2].confidence = 3

\* C17: every step other than the firing of the cleanup interval belongs
\* to one socket a, and for every other socket b it leaves b's registry
\* entry, b's last activity, b's streams with the chunks written to them and
\* b's connection as they were, emits nothing to b, and, when b is
\* connected, leaves the process that serves b running.
C17_OtherConnectionsUntouched ==
  [][now' = now =>
       \E a \in Conns : \A b \in Conns \ {a} :
          /\ activeStreams'[b] = activeStreams[b]
          /\ lastActivity'[b] = lastActivity[b]
          /\ recognizeStream'[b] = recognizeStream[b]
          /\ status'[b] = status[b]
          /\ emitted'[b] = emitted[b]
          /\ \A s \in StreamsOf(b) : streams'[s] = streams[s]
          /\ Connected(b) => crashed' = crashed]_vars

\* C18: no stream is stored under two socket ids, the stream stored under
\* a socket id (and the one in that socket's closure) was opened for that
\* socket, and write() has been called on a stream only by the audio handler
\* of the socket it was opened for.
C18_StreamsNotShared ==
  /\ \A c, d \in Conns :
        (c # d /\ activeStreams[c] # None) => activeStreams[c] # activeStreams[d]
  /\ \A c \in Conns :
        /\ activeStreams[c] # None => streams[activeStreams[c]].owner = c
        /\ recognizeStream[c] # None => streams[recognizeStream[c]].owner = c
  /\ \A s \in StreamIds : streams[s].senders \subseteq {streams[s].owner}

\* Two sockets are registered at once, each with its own stream, and each
\* stream has taken a chunk from its own socket.
C18_Witness ==
  \E c, d \in Conns :
     /\ c # d
     /\ activeStreams[c] # None /\ activeStreams[d] # None
     /\ streams[activeStreams[c]].senders = {c}
     /\ streams[activeStreams[d]].senders = {d}

\* C19 (src/server/index.ts): a chunk that arrives for a socket with a
\* registry entry sets the entry's last activity to the time of arrival, and
\* the cleanup interval never removes an entry whose last chunk arrived
\* InactivityMs ago or less.
C19_ChunkRefreshesActivity ==
  [][variant = "index" =>
       \A c \in Conns : activeStreams[c] # None =>
          LET s == activeStreams[c] IN
            /\ streams'[s].fed # streams[s].fed => lastActivity'[c] = now
            /\ (now' # now /\ activeStreams'[c] = None) =>
                  now' - lastChunkAt[c] > InactivityMs]_vars

\* C20: a stream on which the recognizer reported an error before sending
\* anything (the stream could not be established) is not stored in the
\* registry, and its socket has been sent an 'error' event for it.
FailedToOpen(s) == streams[s].errored /\ streams[s].produced = <<>>

C20_FailedOpenNotStored ==
  \A s \in StreamIds : (FailedToOpen(s) /\ Connected(streams[s].owner)) =>
     /\ activeStreams[streams[s].owner] # s
     /\ \E i \in DOMAIN emitted[streams[s].owner] :
           IsRecognizerError(emitted[streams[s].owner][i])

\* C21 (server.ts, index.ts): a connected socket that has sent neither a
\* closing event nor startTranscription, and has not been swept, has a
\* registry entry holding its connection-time stream, not ended and with
\* both listeners; none of its chunks missed the lookup, every valid chunk
\* it sent was written to that stream, and every recognizer message with a
\* top alternative on it was relayed.
C21_SessionFromConnection ==
  variant # "js" =>
    \A c \in Conns :
       (Connected(c) /\ closeHits[c] = 0 /\ Cardinality(StreamsOf(c)) <= 1) =>
          /\ activeStreams[c] \in StreamsOf(c)
          /\ unrouted[c] = 0
          /\ LET s == activeStreams[c] IN
               /\ streams[s].openedBy = "connection"
               /\ streams[s].endCalls = 0
               /\ streams[s].onError /\ streams[s].onData
               /\ SelectSeq(streams[s].written, validateAudioInput)
                    = SelectSeq(streams[s].fed, validateAudioInput)
               /\ Len(Relayed(s)) = Len(WithTop(s))

\* A socket connected, sent a valid chunk without startTranscription, the
\* chunk was written to its connection-time stream and a result came back.
C21_Witness ==
  \E c \in Conns :
     /\ variant # "js"
     /\ Connected(c) /\ closeHits[c] = 0 /\ Cardinality(StreamsOf(c)) = 1
     /\ LET s == activeStreams[c] IN
          /\ s # None
          /\ Len(streams[s].written) >= 1
          /\ validateAudioInput(streams[s].written[1])
          /\ Len(Relayed(s)) >= 1

\* C22: every recognizer stream the server has opened, for whichever socket
\* and by whichever handler, was opened with the one request of the
\* deployment: LINEAR16, 16000 Hz, the configured language code, interim
\* results on, whatever the client put in its handshake.
C22_RequestFixedPerDeployment ==
  \A s \in StreamIds : streams[s].request = Request(DefaultLanguageCode)

\* C23: no chunk longer than the maximum chunk size is written to a
\* recognizer stream, and the bound is applied twice: the channel admits no
\* larger message, and every chunk written has passed the size check of the
\* validation.
PassesSizeCheck(chunk) == chunk.length >= minSize /\ chunk.length <= maxSize

C23_ChunkSizeBoundedTwice ==
  /\ \A s \in StreamIds : \A i \in DOMAIN streams[s].written :
        /\ streams[s].written[i].length <= maxAudioChunkSize
        /\ PassesSizeCheck(streams[s].written[i])
  /\ maxHttpBufferSize(variant) <= maxAudioChunkSize

\* C24 (SpecStartup; server.ts, index.ts): a process started without
\* credentials in its environment, neither GOOGLE_CLOUD_CREDENTIALS nor
\* GOOGLE_CLOUD_KEY_FILE, never gets to listen.
CredentialsMissing ==
  env.GOOGLE_CLOUD_CREDENTIALS = Unset /\ env.GOOGLE_CLOUD_KEY_FILE = Unset

C24_NoListenWithoutCredentials ==
  (variant # "js" /\ CredentialsMissing) => phase # "listening"

\* C27 (SpecValidate): a call of validateAudioInput never throws, and it
\* returns true exactly for a Buffer of 1024 to 1048576 bytes that carries
\* 'RIFF' at offset 0, 'WAVE' at offset 8, audio format 1 at offset 20,
\* channel count 1 at offset 22 and sample rate 16000 at offset 24.
C27_ValidateExactly ==
  vResult # "pending" =>
     /\ vResult # "threw"
     /\ vResult = "true" <=>
          /\ vInput.isBuffer
          /\ vInput.length >= 1024 /\ vInput.length <= 1048576
          /\ vInput.riff = "RIFF" /\ vInput.wave = "WAVE"
          /\ vInput.audioFormat = 1
          /\ vInput.numChannels = 1
          /\ vInput.sampleRate = 16000

\* The call returned true for a chunk of exactly 1024 bytes.
C27_Witness == vResult = "true" /\ vInput.length = 1024

\* C28: once a socket has disconnected, every recognizer stream that was
\* opened for it, at connection time or by a startTranscription, has had
\* end() called on it.
C28_NoStreamLeftOpen ==
  \A c \in Conns : status[c] = "disconnected" =>
     \A s \in StreamsOf(c) : streams[s].endCalls >= 1

\* C29: the registry holds entries for connected sockets only: a socket
\* that has not connected yet or has disconnected has no entry, whatever
\* happened after its disconnect.
C29_RegistryKeysConnected ==
  \A c \in Conns : activeStreams[c] # None => Connected(c)

\* A socket wrote a chunk and disconnected; afterwards the other socket,
\* still registered, used up the rest of the event budget, and the first
\* socket has no entry.
C29_Witness ==
  \E c, d \in Conns :
     /\ status[c] = "disconnected" /\ activeStreams[c] = None
     /\ \E s \in StreamsOf(c) : Len(streams[s].written) = 1 /\ Len(streams[s].produced) = 0
     /\ Connected(d) /\ activeStreams[d] # None
     /\ Len(streams[activeStreams[d]].written) + Len(streams[activeStreams[d]].produced) = 2
     /\ nEvents = MaxEvents

\* C25: the WebSocketManager of src/lib/websocket-manager.ts waits
\* reconnectDelay times the attempt number before a reconnection attempt,
\* makes at most maxReconnectAttempts (5) attempts in a row without an open
\* in between, and once the fifth has failed it has emitted 'Maximum
\* reconnection attempts reached' and has no further attempt scheduled.
C25_BoundedLinearBackoff ==
  /\ tries <= maxReconnectAttempts
  /\ timer # 0 =>
       /\ tries < maxReconnectAttempts
       /\ timer = reconnectDelay * (tries + 1)
       /\ ~gaveUp
  /\ (tries = maxReconnectAttempts /\ sock \in {"none", "closed"}) => gaveUp
  /\ gaveUp =>
       /\ tries = maxReconnectAttempts
       /\ timer = 0
       /\ sock \in {"none", "closed"}

\* The fifth attempt in a row made a socket, which closed before it opened.
C25_Witness ==
  /\ gaveUp
  /\ sock = "closed"
  /\ nSockets > maxReconnectAttempts

\* C30: once disconnect() has been called on the WebSocketManager of
\* src/lib/websocket-manager.ts, no new WebSocket is created and no
\* reconnection attempt is scheduled.
C30_NoReconnectAfterDisconnect ==
  [][stopped =>
       /\ nSockets' = nSockets
       /\ timer' # 0 => timer' = timer]_vars

\* C26: every transcription or error message the server sends invokes each
\* callback subscribed to its event at that moment exactly once, the message
\* being the one just received, and invokes no callback that is not
\* subscribed any more.
Subscribed(ev, cb) ==
  \E r \in DOMAIN regs :
    regs[r].event = ev /\ regs[r].cb = cb /\ regs[r].active

Invocations(cb) == Cardinality({i \in DOMAIN calls : calls[i].cb = cb})

C26_EachSubscriberOnce ==
  [][(msgs'.n # msgs.n /\ msgs'.kind \in WsEvents) =>
       /\ \A i \in DOMAIN calls' :
            calls'[i].event = msgs'.kind /\ calls'[i].msg = msgs'.n
       /\ \A cb \in Callbacks :
            Invocations(cb)' = IF Subscribed(msgs'.kind, cb) THEN 1 ELSE 0]_vars

\* C31: in the WebSocketManager of src/lib/websocket-manager.ts
\* reconnectAttempts stays within 0..maxReconnectAttempts, and every open
\* resets it to 0, so an outage that follows a successful connection starts
\* with all five attempts available.
C31_AttemptsBoundedAndReset ==
  /\ reconnectAttempts \in 0..maxReconnectAttempts
  /\ sock = "open" => reconnectAttempts = 0 /\ tries = 0 /\ ~gaveUp

\* A socket made by a reconnection attempt has opened.
C31_Witness ==
  /\ sock = "open"
  /\ nSockets > 1
  /\ reconnectAttempts = 0

\* C32: the audioBuffer of the socket.io WebSocketManager never holds more
\* than 100 chunks: sendAudio on a manager that is not connected appends the
\* chunk and, once that makes 101, discards the oldest; an empty chunk is
\* neither emitted nor buffered.
SendAudioStep == ioLast' # ioLast /\ ioLast'.op = "sendAudio"

C32_BufferCapped ==
  /\ [](Len(audioBuffer) <= AudioBufferCap)
  /\ [][SendAudioStep =>
          /\ ioLast'.chunk = 0 =>
               audioBuffer' = audioBuffer /\ ioLast'.emits = <<>>
          /\ (ioLast'.chunk # 0 /\ ~isConnected) =>
               /\ ioLast'.emits = <<>>
               /\ audioBuffer' =
                    IF Len(audioBuffer) < AudioBufferCap
                    THEN Append(audioBuffer, ioLast'.chunk)
                    ELSE Append(Tail(audioBuffer), ioLast'.chunk)]_vars

\* The buffer is full and its oldest chunk has been discarded.
C32_Witness ==
  /\ ioLast.op = "sendAudio"
  /\ Len(audioBuffer) = AudioBufferCap
  /\ audioBuffer[1] = 2
  /\ audioBuffer[AudioBufferCap] = ioLast.chunk

\* C33: when the 'connect' event of the socket.io socket fires,
\* flushAudioBuffer ends with the buffer empty, having emitted every chunk of
\* the buffer as an 'audio' event exactly once, in the order of buffering,
\* and ahead of every chunk passed to sendAudio later.
Ascending(q) == \A i, j \in DOMAIN q : i < j => q[i] < q[j]

C33_FlushInOrder ==
  [][(ioLast' # ioLast /\ ioLast'.op = "onConnect") =>
       /\ ioLast'.emits = audioBuffer
       /\ audioBuffer' = <<>>
       /\ Ascending(<<lastSent>> \o ioLast'.emits)
       /\ \A i \in DOMAIN ioLast'.emits : ioLast'.emits[i] <= nChunks]_vars

\* A full buffer that had lost its oldest chunk was flushed, and a chunk
\* passed afterwards was emitted behind it.
C33_Witness ==
  /\ ioLast.op = "sendAudio"
  /\ ioLast.emits = <<AudioBufferCap + 2>>
  /\ lastSent = AudioBufferCap + 2
  /\ isConnected
  /\ audioBuffer = <<>>

\* C34: whatever the order of startRecording and stopRecording calls, of the
\* settling of getUserMedia and of the recorder's events, one AudioProcessor
\* never has more than one microphone stream with live tracks nor more than
\* one MediaRecorder recording.
LiveStreamsOf(p) ==
  {i \in DOMAIN acqs : acqs[i].proc = p /\ acqs[i].tracks = "live"}

ActiveRecordersOf(p) ==
  {i \in DOMAIN acqs : acqs[i].proc = p /\ acqs[i].rec \in {"started", "recording"}}

C34_OneStreamOneRecorder ==
  \A p \in DOMAIN procs :
    /\ Cardinality(LiveStreamsOf(p)) <= 1
    /\ Cardinality(ActiveRecordersOf(p)) <= 1

\* C35: a toggle of the LiveTracker made while a recording is in progress
\* stops that recording: when toggleRecording returns, the recorder the
\* previous toggle started has been stopped and the tracks of its stream
\* released (after which onStop clears the manager's isRecording flag).
C35_ToggleStopsRecording ==
  [][(Len(procs') > Len(procs) /\ uiIsRecording) =>
       \A i \in DOMAIN acqs' :
         /\ acqs'[i].rec \notin {"started", "recording"}
         /\ acqs'[i].tracks # "live"]_vars

Spec == Init /\ [][Next]_vars
====
